---- MODULE Spec2Model ----
(***************************************************************************)
(* A model of sub_solver.py: the pattern index (hash_word, Corpus) and the *)
(* escalating-tolerance recursive search (SubSolver).                      *)
(*                                                                         *)
(* A character is a one-character string, a word a sequence of characters, *)
(* a translation dict a function from characters to characters.  The       *)
(* recursion of _recursive_solve is an explicit stack of call frames, one  *)
(* step of one call per action.                                            *)
(***************************************************************************)
EXTENDS Integers, Sequences, FiniteSets, TLC

VARIABLES
    ciphertext,              \* SubSolver.ciphertext (already uppercased)
    hash_dict,               \* Corpus._hash_dict: pattern -> bucket
    translation,             \* SubSolver._translation
    words,                   \* local `words` of solve
    max_unknown_word_count,  \* loop variable of solve / argument of the search
    stack,                   \* call frames of _recursive_solve, innermost last
    ret,                     \* value returned by the call that returned last
    pc,                      \* position of the run
    report,                  \* what print_report printed
    input_word,              \* argument of a direct find_candidates call
    cand_out                 \* outcome of a direct find_candidates call

vars == << ciphertext, hash_dict, translation, words, max_unknown_word_count,
           stack, ret, pc, report, input_word, cand_out >>

(***************************************************************************)
(* Bounds of the model.                                                    *)
(***************************************************************************)
MaxText == 5        \* longest ciphertext given to the solver
MaxCorpus == 2      \* most lines in the corpus file
MaxWordLen == 2     \* longest corpus word of the solver runs
MaxSentence == 3    \* most words of an encoded plaintext sentence
MaxProbeCorpus == 2 \* most corpus lines in the direct find_candidates calls
MaxDistinct == 11   \* most distinct characters of a long word
MaxTail == 2        \* most characters after the distinct ones of a long word

(***************************************************************************)
(* Characters.                                                             *)
(***************************************************************************)
LowerSeq == << "a","b","c","d","e","f","g","h","i","j","k","l","m",
               "n","o","p","q","r","s","t","u","v","w","x","y","z" >>
UpperSeq == << "A","B","C","D","E","F","G","H","I","J","K","L","M",
               "N","O","P","Q","R","S","T","U","V","W","X","Y","Z" >>
DigitSeq == << "0","1","2","3","4","5","6","7","8","9" >>

Range(s) == { s[i] : i \in DOMAIN s }

Lower == Range(LowerSeq)
Upper == Range(UpperSeq)
Digits == Range(DigitSeq)

\* The characters of the model in code point order.
Ascii == << "\n", " ", "'", "," >> \o DigitSeq \o UpperSeq \o << "_" >> \o LowerSeq

Ord(c) == CHOOSE i \in DOMAIN Ascii : Ascii[i] = c

\* str.islower() of one character
IsLower(c) == c \in Lower

\* str.upper() of one character
UpperChar(c) == IF c \in Lower
                THEN UpperSeq[CHOOSE i \in DOMAIN LowerSeq : LowerSeq[i] = c]
                ELSE c

\* str.upper()
UpperStr(s) == [ i \in DOMAIN s |-> UpperChar(s[i]) ]

\* the class \w of the regular expression
IsWordChar(c) == c \in Lower \cup Upper \cup Digits \cup { "_" }

\* the characters str.split() splits at
IsSpace(c) == c \in { " ", "\n" }

Max(a, b) == IF a >= b THEN a ELSE b

(***************************************************************************)
(* Translation dicts.                                                      *)
(***************************************************************************)
EmptyDict == << >>

Put(d, k, v) == [ x \in (DOMAIN d) \cup { k } |-> IF x = k THEN v ELSE d[x] ]

Values(d) == { d[x] : x \in DOMAIN d }

\* str.translate with the table of _make_trans_from_dict
Translate(s, d) == [ i \in DOMAIN s |-> IF s[i] \in DOMAIN d THEN d[s[i]] ELSE s[i] ]

\* The value a call returns: None, or a dict.
None == [ none |-> TRUE, dict |-> EmptyDict ]
Some(d) == [ none |-> FALSE, dict |-> d ]

\* Python truth of a returned value: None and the empty dict are false.
Truthy(r) == (~ r.none) /\ (DOMAIN r.dict # {})

(***************************************************************************)
(* hash_word                                                               *)
(***************************************************************************)
\* str(i) for i >= 0
RECURSIVE Str(_)
Str(i) == IF i < 10 THEN << DigitSeq[i + 1] >>
          ELSE Str(i \div 10) \o << DigitSeq[(i % 10) + 1] >>

RECURSIVE HashFrom(_, _, _, _, _)
HashFrom(word, k, seen, i, out) ==
    IF k > Len(word) THEN out
    ELSE IF word[k] \notin DOMAIN seen
         THEN HashFrom(word, k + 1, Put(seen, word[k], Str(i)), i + 1, out \o Str(i))
         ELSE HashFrom(word, k + 1, seen, i, out \o seen[word[k]])

hash_word(word) == HashFrom(word, 1, EmptyDict, 0, << >>)

(***************************************************************************)
(* Corpus                                                                  *)
(***************************************************************************)
RECURSIVE BuildFrom(_, _, _)
BuildFrom(word_list, k, d) ==
    IF k > Len(word_list) THEN d
    ELSE LET word == word_list[k]
             word_hash == hash_word(word)
         IN  IF word_hash \notin DOMAIN d
             THEN BuildFrom(word_list, k + 1, Put(d, word_hash, << word >>))
             ELSE BuildFrom(word_list, k + 1, Put(d, word_hash, Append(d[word_hash], word)))

\* Corpus.__init__ on the lines of the corpus file
BuildHashDict(word_list) == BuildFrom(word_list, 1, EmptyDict)

\* self._hash_dict.get(h) or []
Bucket(d, h) == IF h \in DOMAIN d THEN d[h] ELSE << >>

\* The inner loop of find_candidates on one bucket word, from index i on:
\* "ok", "invalid", or "IndexError" when input_word[i] does not exist.
RECURSIVE CheckWord(_, _, _)
CheckWord(probe, word, i) ==
    IF i > Len(word) THEN "ok"
    ELSE IF i > Len(probe) THEN "IndexError"
    ELSE IF (IsLower(probe[i]) \/ probe[i] = "'" \/ word[i] = "'")
            /\ probe[i] # word[i]
         THEN "invalid"
         ELSE CheckWord(probe, word, i + 1)

RECURSIVE FilterFrom(_, _, _, _)
FilterFrom(probe, matches_hash, k, candidates) ==
    IF k > Len(matches_hash) THEN [ err |-> FALSE, candidates |-> candidates ]
    ELSE LET c == CheckWord(probe, matches_hash[k], 1)
         IN  IF c = "IndexError" THEN [ err |-> TRUE, candidates |-> << >> ]
             ELSE IF c = "ok"
                  THEN FilterFrom(probe, matches_hash, k + 1,
                                  Append(candidates, matches_hash[k]))
                  ELSE FilterFrom(probe, matches_hash, k + 1, candidates)

\* Corpus.find_candidates: the list of candidates, or err when it raises
find_candidates(d, probe) == FilterFrom(probe, Bucket(d, hash_word(probe)), 1, << >>)

(***************************************************************************)
(* SubSolver.solve: the word list                                          *)
(***************************************************************************)
\* re.sub(r'[^\w ]+', '', s)
RECURSIVE StripFrom(_, _)
StripFrom(s, k) ==
    IF k > Len(s) THEN << >>
    ELSE IF IsWordChar(s[k]) \/ s[k] = " "
         THEN << s[k] >> \o StripFrom(s, k + 1)
         ELSE StripFrom(s, k + 1)

Strip(s) == StripFrom(s, 1)

\* str.split(): the maximal runs of characters that are not whitespace
RECURSIVE SplitFrom(_, _, _)
SplitFrom(s, k, cur) ==
    IF k > Len(s) THEN (IF cur = << >> THEN << >> ELSE << cur >>)
    ELSE IF IsSpace(s[k])
         THEN (IF cur = << >> THEN << >> ELSE << cur >>) \o SplitFrom(s, k + 1, << >>)
         ELSE SplitFrom(s, k + 1, Append(cur, s[k]))

Split(s) == SplitFrom(s, 1, << >>)

\* list.sort(key=lambda word: -len(word)): stable, longest first
RECURSIVE InsertByLen(_, _)
InsertByLen(sorted, w) ==
    IF sorted = << >> THEN << w >>
    ELSE IF Len(Head(sorted)) >= Len(w)
         THEN << Head(sorted) >> \o InsertByLen(Tail(sorted), w)
         ELSE << w >> \o sorted

RECURSIVE SortFrom(_, _, _)
SortFrom(ws, k, sorted) ==
    IF k > Len(ws) THEN sorted
    ELSE SortFrom(ws, k + 1, InsertByLen(sorted, ws[k]))

SortByLen(ws) == SortFrom(ws, 1, << >>)

ExtractWords(text) == SortByLen(Split(Strip(text)))

\* the bound of range(0, max(3, len(words) // 10))
ScheduleLen(n) == Max(3, n \div 10)

(***************************************************************************)
(* SubSolver._recursive_solve: one candidate                               *)
(***************************************************************************)
\* The loop over the characters of a candidate, from index i on.
RECURSIVE ExtendFrom(_, _, _, _, _)
ExtendFrom(cipher_word, candidate, current_translation, new_trans, i) ==
    IF i > Len(candidate) THEN [ bad |-> FALSE, new_trans |-> new_trans ]
    ELSE IF cipher_word[i] \notin DOMAIN current_translation
            /\ candidate[i] \in Values(current_translation)
         THEN [ bad |-> TRUE, new_trans |-> new_trans ]
         ELSE ExtendFrom(cipher_word, candidate, current_translation,
                         Put(new_trans, cipher_word[i], candidate[i]), i + 1)

\* the loop without the assignment of line 160
TryCandidateNoStore(cipher_word, candidate, current_translation) ==
    [ bad |-> ExtendFrom(cipher_word, candidate, current_translation,
                         current_translation, 1).bad,
      new_trans |-> current_translation ]

TryCandidate(cipher_word, candidate, current_translation) ==
    ExtendFrom(cipher_word, candidate, current_translation, current_translation, 1)

(***************************************************************************)
(* Inputs                                                                  *)
(***************************************************************************)
SeqsUpTo(S, n) == UNION { [ 1..k -> S ] : k \in 0..n }

\* ciphertexts given to SubSolver(...): lowercase and uppercase letters,
\* a space and an apostrophe
TextChars == { "x", "A", " ", "'" }
Texts == SeqsUpTo(TextChars, MaxText)

\* lines of the corpus file of the solver runs: lowercase and mixed case
PlainChars == { "e", "A" }
CorpusWords == SeqsUpTo(PlainChars, MaxWordLen) \ { << >> }
Corpora == SeqsUpTo(CorpusWords, MaxCorpus)

\* encoded sentences: lowercase plaintext words, joined by a space or by an
\* apostrophe and encoded under a bijection from the plaintext letters to
\* cipher letters
PlainLetters == { "a", "e" }
CipherLetters == { "X", "A" }
PlainWords == { << "a" >>, << "e" >>, << "a", "e" >> }
PlainCorpora == SeqsUpTo(PlainWords, MaxCorpus)
Sentences == SeqsUpTo(PlainWords, MaxSentence)
Substitutions == { f \in [ PlainLetters -> CipherLetters ] :
                     \A a, b \in PlainLetters : a # b => f[a] # f[b] }

Separators == { " ", "'" }

RECURSIVE Join(_, _)
Join(ws, sep) == IF ws = << >> THEN << >>
                 ELSE IF Len(ws) = 1 THEN ws[1]
                 ELSE ws[1] \o << sep >> \o Join(Tail(ws), sep)

Encode(sentence, sep, sigma) == Translate(Join(sentence, sep), sigma)

\* words of the direct find_candidates calls: short words with decoded
\* letters, undecoded letters and apostrophes, and long words made of a run
\* of distinct letters followed by a few repeated ones
ShortWords == SeqsUpTo({ "a", "b", "A", "'" }, 2)
LongWords == { SubSeq(LowerSeq, 1, n) \o t :
                 n \in (MaxDistinct - 1)..MaxDistinct,
                 t \in SeqsUpTo({ "a", "b" }, MaxTail) }
ProbeCorpora == SeqsUpTo(ShortWords \cup LongWords, MaxProbeCorpus)
Probes == ShortWords \cup { UpperStr(w) : w \in LongWords }

(***************************************************************************)
(* State                                                                   *)
(***************************************************************************)
NoReport == [ printed |-> FALSE, failed |-> FALSE,
              plaintext |-> << >>, substitutions |-> << >> ]
NoCall == [ err |-> FALSE, candidates |-> << >> ]

Frame(remaining_words, current_translation, unknown_word_count) ==
    [ remaining_words |-> remaining_words,
      current_translation |-> current_translation,
      unknown_word_count |-> unknown_word_count,
      candidates |-> << >>,
      ci |-> 0,
      at |-> "enter" ]

Top == stack[Len(stack)]
Pop == SubSeq(stack, 1, Len(stack) - 1)
SetTop(f) == [ stack EXCEPT ![Len(stack)] = f ]

\* the state after SubSolver(ciphertext, corpus_filename)
Init ==
    \E text \in Texts, word_list \in Corpora :
        /\ ciphertext = UpperStr(text)
        /\ hash_dict = BuildHashDict(word_list)
        /\ translation = EmptyDict
        /\ words = << >>
        /\ max_unknown_word_count = 0
        /\ stack = << >>
        /\ ret = None
        /\ pc = "start"
        /\ report = NoReport
        /\ input_word = << >>
        /\ cand_out = NoCall

(***************************************************************************)
(* SubSolver.solve                                                         *)
(***************************************************************************)
\* lines 98-99
SolveExtract ==
    /\ pc = "start"
    /\ words' = ExtractWords(ciphertext)
    /\ max_unknown_word_count' = 0
    /\ pc' = "loop"
    /\ UNCHANGED << ciphertext, hash_dict, translation, stack, ret, report,
                    input_word, cand_out >>

\* lines 101-103: the next tolerance of the range, and the call
SolveCall ==
    /\ pc = "loop"
    /\ max_unknown_word_count < ScheduleLen(Len(words))
    /\ stack' = << Frame(words, EmptyDict, 0) >>
    /\ pc' = "search"
    /\ UNCHANGED << ciphertext, hash_dict, translation, words,
                    max_unknown_word_count, ret, report, input_word, cand_out >>

\* line 101: the range is exhausted
SolveExhausted ==
    /\ pc = "loop"
    /\ max_unknown_word_count >= ScheduleLen(Len(words))
    /\ pc' = "done"
    /\ UNCHANGED << ciphertext, hash_dict, translation, words,
                    max_unknown_word_count, stack, ret, report, input_word,
                    cand_out >>

\* lines 104-106: the solution is true
SolveBreak ==
    /\ pc = "search"
    /\ stack = << >>
    /\ Truthy(ret)
    /\ translation' = ret.dict
    /\ pc' = "done"
    /\ UNCHANGED << ciphertext, hash_dict, words, max_unknown_word_count,
                    stack, ret, report, input_word, cand_out >>

\* line 104: the solution is false
SolveContinue ==
    /\ pc = "search"
    /\ stack = << >>
    /\ ~ Truthy(ret)
    /\ max_unknown_word_count' = max_unknown_word_count + 1
    /\ pc' = "loop"
    /\ UNCHANGED << ciphertext, hash_dict, translation, words, stack, ret,
                    report, input_word, cand_out >>

(***************************************************************************)
(* SubSolver._recursive_solve                                              *)
(***************************************************************************)
InCall == pc = "search" /\ stack # << >>

\* lines 137-138
RecReturnTranslation ==
    /\ InCall
    /\ Top.at = "enter"
    /\ Len(Top.remaining_words) = 0
    /\ ret' = Some(Top.current_translation)
    /\ stack' = Pop
    /\ UNCHANGED << ciphertext, hash_dict, translation, words,
                    max_unknown_word_count, pc, report, input_word, cand_out >>

\* lines 140-141
RecGiveUp ==
    /\ InCall
    /\ Top.at = "enter"
    /\ Len(Top.remaining_words) # 0
    /\ Top.unknown_word_count > max_unknown_word_count
    /\ ret' = None
    /\ stack' = Pop
    /\ UNCHANGED << ciphertext, hash_dict, translation, words,
                    max_unknown_word_count, pc, report, input_word, cand_out >>

\* lines 143-144; an IndexError of find_candidates ends the run
RecFindCandidates ==
    /\ InCall
    /\ Top.at = "enter"
    /\ Len(Top.remaining_words) # 0
    /\ Top.unknown_word_count <= max_unknown_word_count
    /\ LET cipher_word == Top.remaining_words[1]
           found == find_candidates(hash_dict,
                                    Translate(cipher_word, Top.current_translation))
       IN  IF found.err
           THEN /\ pc' = "IndexError"
                /\ stack' = stack
           ELSE /\ pc' = pc
                /\ stack' = SetTop([ Top EXCEPT !.candidates = found.candidates,
                                                !.ci = 1,
                                                !.at = "loop" ])
    /\ UNCHANGED << ciphertext, hash_dict, translation, words,
                    max_unknown_word_count, ret, report, input_word, cand_out >>

\* lines 146-163: the candidate is a bad translation
RecRejectCandidate ==
    /\ InCall
    /\ Top.at = "loop"
    /\ Top.ci <= Len(Top.candidates)
    /\ TryCandidate(Top.remaining_words[1], Top.candidates[Top.ci],
                    Top.current_translation).bad
    /\ stack' = SetTop([ Top EXCEPT !.ci = Top.ci + 1 ])
    /\ UNCHANGED << ciphertext, hash_dict, translation, words,
                    max_unknown_word_count, ret, pc, report, input_word,
                    cand_out >>

\* lines 146-167: the call for a candidate
RecCallCandidate ==
    /\ InCall
    /\ Top.at = "loop"
    /\ Top.ci <= Len(Top.candidates)
    /\ LET try == TryCandidate(Top.remaining_words[1], Top.candidates[Top.ci],
                               Top.current_translation)
       IN  /\ ~ try.bad
           /\ stack' = Append(SetTop([ Top EXCEPT !.at = "cand_call" ]),
                              Frame(Tail(Top.remaining_words), try.new_trans,
                                    Top.unknown_word_count))
    /\ UNCHANGED << ciphertext, hash_dict, translation, words,
                    max_unknown_word_count, ret, pc, report, input_word,
                    cand_out >>

\* lines 168-169: the result is true
RecCandidateSucceeded ==
    /\ InCall
    /\ Top.at = "cand_call"
    /\ Truthy(ret)
    /\ stack' = Pop
    /\ UNCHANGED << ciphertext, hash_dict, translation, words,
                    max_unknown_word_count, ret, pc, report, input_word,
                    cand_out >>

\* line 168: the result is false, on to the next candidate
RecCandidateFailed ==
    /\ InCall
    /\ Top.at = "cand_call"
    /\ ~ Truthy(ret)
    /\ stack' = SetTop([ Top EXCEPT !.ci = Top.ci + 1, !.at = "loop" ])
    /\ UNCHANGED << ciphertext, hash_dict, translation, words,
                    max_unknown_word_count, ret, pc, report, input_word,
                    cand_out >>

\* lines 173-176: the call that skips the word
RecCallSkip ==
    /\ InCall
    /\ Top.at = "loop"
    /\ Top.ci > Len(Top.candidates)
    /\ stack' = Append(SetTop([ Top EXCEPT !.at = "skip_call" ]),
                       Frame(Tail(Top.remaining_words), Top.current_translation,
                             Top.unknown_word_count + 1))
    /\ UNCHANGED << ciphertext, hash_dict, translation, words,
                    max_unknown_word_count, ret, pc, report, input_word,
                    cand_out >>

\* lines 177-178: the skip solution is true
RecSkipSucceeded ==
    /\ InCall
    /\ Top.at = "skip_call"
    /\ Truthy(ret)
    /\ stack' = Pop
    /\ UNCHANGED << ciphertext, hash_dict, translation, words,
                    max_unknown_word_count, ret, pc, report, input_word,
                    cand_out >>

\* lines 177-180: the skip solution is false
RecSkipFailed ==
    /\ InCall
    /\ Top.at = "skip_call"
    /\ ~ Truthy(ret)
    /\ ret' = None
    /\ stack' = Pop
    /\ UNCHANGED << ciphertext, hash_dict, translation, words,
                    max_unknown_word_count, pc, report, input_word, cand_out >>

(***************************************************************************)
(* SubSolver.print_report                                                  *)
(***************************************************************************)
\* sorted(items): the keys are single characters, so the items sort by key
RECURSIVE SortedKeys(_)
SortedKeys(S) ==
    IF S = {} THEN << >>
    ELSE LET k == CHOOSE x \in S : \A y \in S : Ord(x) <= Ord(y)
         IN  << k >> \o SortedKeys(S \ { k })

ReportItems(d) ==
    LET keys == SortedKeys(DOMAIN d)
    IN  [ i \in DOMAIN keys |-> << keys[i], d[keys[i]] >> ]

PrintReport ==
    /\ pc = "done"
    /\ report' = IF DOMAIN translation = {}
                 THEN [ printed |-> TRUE, failed |-> TRUE,
                        plaintext |-> << >>, substitutions |-> << >> ]
                 ELSE [ printed |-> TRUE, failed |-> FALSE,
                        plaintext |-> Translate(ciphertext, translation),
                        substitutions |-> ReportItems(translation) ]
    /\ pc' = "reported"
    /\ UNCHANGED << ciphertext, hash_dict, translation, words,
                    max_unknown_word_count, stack, ret, input_word, cand_out >>

Next ==
    \/ SolveExtract
    \/ SolveCall
    \/ SolveExhausted
    \/ SolveBreak
    \/ SolveContinue
    \/ RecReturnTranslation
    \/ RecGiveUp
    \/ RecFindCandidates
    \/ RecRejectCandidate
    \/ RecCallCandidate
    \/ RecCandidateSucceeded
    \/ RecCandidateFailed
    \/ RecCallSkip
    \/ RecSkipSucceeded
    \/ RecSkipFailed
    \/ PrintReport

Spec == Init /\ [][Next]_vars

(***************************************************************************)
(* Runs of the solver on encoded sentences                                 *)
(***************************************************************************)
InitRoundTrip ==
    \E word_list \in PlainCorpora, sentence \in Sentences,
       sep \in Separators, sigma \in Substitutions :
        /\ ciphertext = UpperStr(Encode(sentence, sep, sigma))
        /\ hash_dict = BuildHashDict(word_list)
        /\ translation = EmptyDict
        /\ words = << >>
        /\ max_unknown_word_count = 0
        /\ stack = << >>
        /\ ret = None
        /\ pc = "start"
        /\ report = NoReport
        /\ input_word = << >>
        /\ cand_out = NoCall

SpecRoundTrip == InitRoundTrip /\ [][Next]_vars

(***************************************************************************)
(* Direct calls of Corpus.find_candidates                                  *)
(***************************************************************************)
InitCand ==
    \E word_list \in ProbeCorpora, probe \in Probes :
        /\ ciphertext = << >>
        /\ hash_dict = BuildHashDict(word_list)
        /\ translation = EmptyDict
        /\ words = << >>
        /\ max_unknown_word_count = 0
        /\ stack = << >>
        /\ ret = None
        /\ pc = "probe"
        /\ report = NoReport
        /\ input_word = probe
        /\ cand_out = NoCall

CallFindCandidates ==
    /\ pc = "probe"
    /\ cand_out' = find_candidates(hash_dict, input_word)
    /\ pc' = "probed"
    /\ UNCHANGED << ciphertext, hash_dict, translation, words,
                    max_unknown_word_count, stack, ret, report, input_word >>

NextCand == CallFindCandidates

SpecCand == InitCand /\ [][NextCand]_vars

(***************************************************************************)
(* Properties                                                              *)
(***************************************************************************)
Injective(d) == \A a, b \in DOMAIN d : a # b => d[a] # d[b]

CorpusWordsOf(d) == UNION { Range(d[h]) : h \in DOMAIN d }

TopOf(st) == st[Len(st)]

\* a call has returned and its caller has not yet looked at the value
ReturnPending ==
    /\ pc = "search"
    /\ \/ stack = << >>
       \/ Top.at \in { "cand_call", "skip_call" }

\* the frames whose word was taken through the skip branch
SkippedFrames == { k \in DOMAIN stack : stack[k].at = "skip_call" }

\* C1: the translation held by every call of the recursive search, and the
\* translation stored by solve, never maps two distinct ciphertext
\* characters to the same plaintext character.
C1_TranslationInjective ==
    /\ \A k \in DOMAIN stack : Injective(stack[k].current_translation)
    /\ Injective(translation)

\* C2: whenever the recursive search returns a translation, every word on
\* the path that was matched to a candidate decodes under the returned
\* translation to exactly that candidate, which is a corpus word, and a call
\* never changes a mapping its caller held.
C2_MatchedWordsDecode ==
    /\ (ReturnPending /\ ~ ret.none) =>
          \A k \in DOMAIN stack :
              stack[k].at = "cand_call" =>
                  LET candidate == stack[k].candidates[stack[k].ci]
                  IN  /\ Translate(stack[k].remaining_words[1], ret.dict) = candidate
                      /\ candidate \in CorpusWordsOf(hash_dict)
    /\ \A k \in 1..(Len(stack) - 1) :
          \A c \in DOMAIN stack[k].current_translation :
              /\ c \in DOMAIN stack[k + 1].current_translation
              /\ stack[k + 1].current_translation[c] = stack[k].current_translation[c]

\* C4: a search with tolerance t never returns a translation along a path on
\* which more than t words were skipped; at tolerance 0 no word of a
\* successful path has zero candidates.
C4_ToleranceBound ==
    (ReturnPending /\ Truthy(ret)) =>
        /\ Cardinality(SkippedFrames) <= max_unknown_word_count
        /\ max_unknown_word_count = 0 =>
              \A k \in DOMAIN stack : stack[k].candidates # << >>

\* C5: for a ciphertext with zero extractable words solve ends in a success
\* outcome carrying an empty translation, which differs from the report of
\* failure produced when every tolerance has failed.
C5_TrivialSuccessDistinct ==
    (pc = "reported" /\ words = << >>) =>
        /\ DOMAIN translation = {}
        /\ ~ report.failed

\* C6: solve runs the search with tolerance 0, 1, ..., max(3, n div 10) - 1
\* in increasing order, each time from the empty translation and zero skips,
\* stops at the first tolerance whose search returns a translation and keeps
\* that translation, and gives up only after every tolerance has failed.
C6_EscalatingSchedule ==
    [][ /\ (pc = "start" /\ pc' = "loop") => max_unknown_word_count' = 0
        /\ (pc = "loop" /\ pc' = "search") =>
              /\ max_unknown_word_count < ScheduleLen(Len(words))
              /\ stack' = << Frame(words, EmptyDict, 0) >>
        /\ (max_unknown_word_count' # max_unknown_word_count) =>
              /\ max_unknown_word_count' = max_unknown_word_count + 1
              /\ ret.none
        /\ (pc = "search" /\ stack = << >> /\ ~ ret.none) =>
              /\ pc' = "done"
              /\ translation' = ret.dict
        /\ (pc = "loop" /\ pc' = "done") =>
              /\ max_unknown_word_count = ScheduleLen(Len(words))
              /\ ret.none
      ]_vars

\* the acceptance test of the candidate filter, as the claim states it
Accepts(probe, w) ==
    \A i \in DOMAIN w :
        (i \in DOMAIN probe
           /\ (IsLower(probe[i]) \/ probe[i] = "'" \/ w[i] = "'"))
        => probe[i] = w[i]

\* C7: find_candidates(probe) returns exactly the words of the bucket for
\* pattern(probe) that pass the acceptance test, in bucket order and with
\* duplicates, and the empty list when there is no bucket.
C7_CandidateFiltering ==
    pc = "probed" =>
        LET Test(w) == Accepts(input_word, w)
        IN  /\ ~ cand_out.err
            /\ cand_out.candidates
                 = SelectSeq(Bucket(hash_dict, hash_word(input_word)), Test)

SamePattern(u, v) ==
    /\ Len(u) = Len(v)
    /\ \A i, j \in DOMAIN u : (u[i] = u[j]) <=> (v[i] = v[j])

\* C8: words with equal hash_word have equal length and repeat characters
\* at the same positions, so every candidate has the length of the probe
\* and find_candidates never indexes past the end of the probe.
C8_PatternEncodesLength ==
    pc = "probed" =>
        /\ \A w \in CorpusWordsOf(hash_dict) :
              hash_word(w) = hash_word(input_word) => SamePattern(w, input_word)
        /\ ~ cand_out.err
        /\ \A k \in DOMAIN cand_out.candidates :
              Len(cand_out.candidates[k]) = Len(input_word)

\* alphanumeric or apostrophe
IsTokenChar(c) == c \in Lower \cup Upper \cup Digits \cup { "'" }

RECURSIVE RunsFrom(_, _, _)
RunsFrom(s, k, cur) ==
    IF k > Len(s) THEN (IF cur = << >> THEN << >> ELSE << cur >>)
    ELSE IF ~ IsTokenChar(s[k])
         THEN (IF cur = << >> THEN << >> ELSE << cur >>) \o RunsFrom(s, k + 1, << >>)
         ELSE RunsFrom(s, k + 1, Append(cur, s[k]))

\* C9: the word list of solve is the maximal runs of alphanumeric or
\* apostrophe characters of the uppercased ciphertext (longest first); every
\* other character separates words and apostrophes stay inside the words.
C9_Tokenization ==
    pc # "start" => words = SortByLen(RunsFrom(ciphertext, 1, << >>))

\* C10: at every node the candidates are tried in bucket order, the result
\* of the first candidate whose sub-search succeeds is returned at once, the
\* skip branch (same translation, skipped + 1) is entered only after every
\* candidate has failed or been rejected, and the node fails only if the
\* skip branch fails too.
C10_CandidateBeforeSkip ==
    [][ (pc = "search" /\ stack # << >>) =>
        /\ (Top.at = "enter" /\ pc' = "search" /\ Len(stack') = Len(stack)) =>
              TopOf(stack').ci = 1
        /\ (Top.at = "loop" /\ Len(stack') = Len(stack)) =>
              TopOf(stack').ci = Top.ci + 1
        /\ (Top.at = "cand_call" /\ ~ ret.none) =>
              /\ stack' = Pop
              /\ ret' = ret
        /\ (Top.at = "cand_call" /\ ret.none) =>
              /\ TopOf(stack').ci = Top.ci + 1
              /\ TopOf(stack').at = "loop"
        /\ (Len(stack') = Len(stack) + 1 /\ stack'[Len(stack)].at = "skip_call") =>
              /\ Top.ci = Len(Top.candidates) + 1
              /\ TopOf(stack') = Frame(Tail(Top.remaining_words),
                                       Top.current_translation,
                                       Top.unknown_word_count + 1)
        /\ (Top.at \in { "loop", "cand_call", "skip_call" }
              /\ stack' = Pop /\ ret'.none) =>
              /\ Top.at = "skip_call"
              /\ ret.none
      ]_vars

\* the plaintext a ciphertext stands for under a substitution
Inverse(sigma) ==
    [ c \in Values(sigma) |-> CHOOSE p \in DOMAIN sigma : sigma[p] = c ]

PlainOf(sigma) == Translate(ciphertext, Inverse(sigma))

\* the ciphertext is a sentence encoded under sigma whose plaintext words
\* are all corpus words
EncodedCorpusSentence(sigma) ==
    /\ \A i \in DOMAIN ciphertext : ciphertext[i] \in CipherLetters \cup { " " }
    /\ \A w \in Range(Split(PlainOf(sigma))) : w \in CorpusWordsOf(hash_dict)

\* the ciphertext is a text encoded under sigma: each of its letters is a
\* cipher letter of sigma, so that the plaintext has lowercase letters only
EncodedUnder(sigma) ==
    \A i \in DOMAIN ciphertext :
        ciphertext[i] \in Lower \cup Upper => ciphertext[i] \in Values(sigma)

\* every word that solve extracts from the ciphertext has candidates, and the
\* first of them is the plaintext word it stands for
FirstCandidates(sigma) ==
    \A cipher_word \in Range(ExtractWords(ciphertext)) :
        LET found == find_candidates(hash_dict, cipher_word)
        IN  /\ ~ found.err
            /\ found.candidates # << >>
            /\ found.candidates[1] = Translate(cipher_word, Inverse(sigma))

Solved == pc \in { "done", "reported" }

\* C3 as stated: if a plaintext sentence is encoded under a bijective
\* substitution and every plaintext word is in the corpus, solve succeeds
\* and the stored translation decodes the ciphertext back to exactly that
\* plaintext.
C3_RoundTripAsStated ==
    \A sigma \in Substitutions :
        (Solved /\ EncodedCorpusSentence(sigma)) =>
            /\ words # << >> => DOMAIN translation # {}
            /\ Translate(ciphertext, translation) = PlainOf(sigma)

\* C3 amended: if a lowercase plaintext is encoded under a bijective
\* substitution into uppercase cipher letters and, for every word that solve
\* extracts from the ciphertext, the plaintext word is the first candidate
\* the corpus returns, then no lookup fails, every search of solve returns a
\* translation that decodes the ciphertext back to exactly that plaintext,
\* and so does the translation solve stores; when the ciphertext has a word,
\* the first search already succeeds, at tolerance 0, with a non-empty
\* translation.
C3_RoundTripFirstCandidate ==
    \A sigma \in Substitutions :
        (EncodedUnder(sigma) /\ FirstCandidates(sigma)) =>
            /\ pc # "IndexError"
            /\ (pc = "search" /\ stack = << >>) =>
                  /\ ~ ret.none
                  /\ Translate(ciphertext, ret.dict) = PlainOf(sigma)
                  /\ words # << >> =>
                        Truthy(ret) /\ max_unknown_word_count = 0
            /\ Solved =>
                  /\ Translate(ciphertext, translation) = PlainOf(sigma)
                  /\ words # << >> =>
                        /\ DOMAIN translation # {}
                        /\ translation = ret.dict
                        /\ max_unknown_word_count = 0

\* C3 witness: solve has finished on an encoded sentence of two words or
\* more; the corpus offers a second, different candidate after the plaintext
\* word for one of them, and the stored translation decodes the sentence.
C3_Witness ==
    /\ pc = "done"
    /\ Len(words) >= 2
    /\ \E sigma \in Substitutions :
          /\ EncodedUnder(sigma)
          /\ FirstCandidates(sigma)
          /\ \E cipher_word \in Range(words) :
                LET found == find_candidates(hash_dict, cipher_word)
                IN  /\ Len(found.candidates) >= 2
                    /\ found.candidates[2] # found.candidates[1]
          /\ DOMAIN translation # {}
          /\ Translate(ciphertext, translation) = PlainOf(sigma)

====
